---- MODULE Spec2Model ----
(***************************************************************************)
(* koinos-cli wallet: the register command, the commands it synthesizes    *)
(* from a contract ABI (read / write), and the static commands.            *)
(*                                                                         *)
(* Strings that are compared or cut are modelled by what the code does to  *)
(* them: a command or contract name is the sequence of its dot-free        *)
(* segments and its "." separators (<<"a", ".", "b">> is "a.b"); an entry  *)
(* point is the sequence of its characters.  Numbers an entry point may    *)
(* denote reach 2^32, so a number is kept as two 16-bit halves             *)
(* [hi, lo] (value hi * 2^16 + lo).                                        *)
(***************************************************************************)
EXTENDS Integers, Sequences, TLC

VARIABLES key, contracts, commands, status, last

vars == <<key, contracts, commands, status, last>>

\* ------------------------------------------------------------------------
\* Bounds of the model
\* ------------------------------------------------------------------------

\* The grammar is explored up to this many declarations: a document is
\* compiled only while the grammar has room for every method of it.
MaxCommands == 16

\* A nil pointer, and a pointer to x; p[1] dereferences a non-nil p.
Nil == << >>

Ptr(x) == << x >>

\* ee.Key when no wallet is open, and the keys a wallet may hold.
NoKey == "nil"

Keys == { "k1", "k2" }

\* ------------------------------------------------------------------------
\* Numbers as 16-bit halves
\* ------------------------------------------------------------------------

Half == 2 ^ 16

U(hi, lo) == [hi |-> hi, lo |-> lo]

Zero == U(0, 0)

\* n * base + d
MulAdd(n, base, d) ==
    LET l == n.lo * base + d
    IN  U(n.hi * base + (l \div Half), l % Half)

\* n > 2^32 - 1
Above32(n) == n.hi >= Half

\* n >= 2^31
AtLeast2p31(n) == n.hi >= 32768

\* n > 2^31
Above2p31(n) == n.hi > 32768 \/ (n.hi = 32768 /\ n.lo > 0)

\* 2^32 - n, for 0 < n <= 2^31: the uint32 of the int64 -n
Neg32(n) ==
    IF n.lo = 0 THEN U((Half - n.hi) % Half, 0)
    ELSE U((Half - 1 - n.hi) % Half, Half - n.lo)

\* ------------------------------------------------------------------------
\* strconv.ParseInt, as called at the entry-point conversion
\* ------------------------------------------------------------------------

LowerDigits == <<"0", "1", "2", "3", "4", "5", "6", "7", "8", "9",
                 "a", "b", "c", "d", "e", "f", "g", "h", "i", "j", "k", "l", "m",
                 "n", "o", "p", "q", "r", "s", "t", "u", "v", "w", "x", "y", "z">>

UpperDigits == <<"0", "1", "2", "3", "4", "5", "6", "7", "8", "9",
                 "A", "B", "C", "D", "E", "F", "G", "H", "I", "J", "K", "L", "M",
                 "N", "O", "P", "Q", "R", "S", "T", "U", "V", "W", "X", "Y", "Z">>

\* No digit has this value: every base is at most 36.
NoDigit == Len(LowerDigits)

\* The digit value of each character that has one ('0'..'9', then
\* lower(c) - 'a' + 10).
DigitMap ==
    [ c \in { LowerDigits[i] : i \in 1..36 } \cup { UpperDigits[i] : i \in 1..36 } |->
        IF \E i \in 1..36 : LowerDigits[i] = c
        THEN (CHOOSE i \in 1..36 : LowerDigits[i] = c) - 1
        ELSE (CHOOSE i \in 1..36 : UpperDigits[i] = c) - 1 ]

\* The digit value of a character, NoDigit for any other character.
DigitVal(c) == IF c \in DOMAIN DigitMap THEN DigitMap[c] ELSE NoDigit

RECURSIVE ParseUintFrom(_, _, _, _)
\* The loop of strconv.ParseUint over s[i..], n accumulated so far, for a
\* 32-bit result: the first offending character decides the error.
ParseUintFrom(s, i, base, n) ==
    IF i > Len(s) THEN [err |-> "none", val |-> n]
    ELSE LET d == DigitVal(s[i])
         IN  IF d = NoDigit \/ d >= base THEN [err |-> "syntax", val |-> Zero]
             ELSE LET n1 == MulAdd(n, base, d)
                  IN  IF Above32(n1) THEN [err |-> "range", val |-> U(Half - 1, Half - 1)]
                      ELSE ParseUintFrom(s, i + 1, base, n1)

ParseUint32(s, base) ==
    IF s = <<>> THEN [err |-> "syntax", val |-> Zero]
    ELSE ParseUintFrom(s, 1, base, Zero)

\* strconv.ParseInt(s, base, 32): [err, neg, mag], the int64 result being
\* mag, or -mag when neg.
ParseInt32(s, base) ==
    IF s = <<>> THEN [err |-> "syntax", neg |-> FALSE, mag |-> Zero]
    ELSE LET neg  == s[1] = "-"
             rest == IF s[1] = "+" \/ s[1] = "-" THEN Tail(s) ELSE s
             un   == ParseUint32(rest, base)
         IN  IF un.err = "syntax" THEN [err |-> "syntax", neg |-> FALSE, mag |-> Zero]
             ELSE IF ~neg /\ AtLeast2p31(un.val)
                  THEN [err |-> "range", neg |-> FALSE, mag |-> U(32767, Half - 1)]
             ELSE IF neg /\ Above2p31(un.val)
                  THEN [err |-> "range", neg |-> TRUE, mag |-> U(32768, 0)]
             ELSE [err |-> "none", neg |-> neg, mag |-> un.val]

\* uint32(entryPoint) of a ParseInt32 result without error
ToUint32(r) == IF r.neg /\ r.mag # Zero THEN Neg32(r.mag) ELSE r.mag

\* ------------------------------------------------------------------------
\* Names, addresses, argument values
\* ------------------------------------------------------------------------

Dot == "."

\* fmt.Sprintf("%s.%s", c.Name, method.Name)
QualifiedName(contract, method) == contract \o <<Dot>> \o method

ContractNames == { <<"a">>, <<"a", Dot, "b">> }

GoodAddress == <<"0", "x", "1", "2", "3", "4">>

BadAddress == <<"z", "z">>

Addresses == { GoodAddress, BadAddress }

\* A byte that is not UTF-8 text.
NotUTF8 == "\\xff"

\* Tokens a user may type as the argument of a synthesized command.
ArgValues == { <<"1", "0", "0">>, <<"a", "b", "c", "d">>, << NotUTF8 >> }

HasPrefix0x(s) == Len(s) >= 2 /\ s[1] = "0" /\ s[2] = "x"

\* util.HexStringToBytes succeeds: hex digits in pairs, with or without a
\* leading 0x.
HexDecodes(s) ==
    LET body == IF HasPrefix0x(s) THEN SubSeq(s, 3, Len(s)) ELSE s
    IN  /\ Len(body) % 2 = 0
        /\ \A i \in 1..Len(body) : DigitVal(body[i]) < 16

\* A base-10 integer field accepts the token.
DecimalParses(s) == s # <<>> /\ \A i \in 1..Len(s) : DigitVal(s[i]) < 10

\* ------------------------------------------------------------------------
\* Schemas (file descriptors) and ABI documents
\* ------------------------------------------------------------------------

Field(name, kind) == [name |-> name, kind |-> kind]

SupportedKinds == {"bytes", "uint64", "string"}

\* The one schema file the ABI documents of the model embed: message type
\* name -> ordered fields.
TokenSchema ==
    [ balance_of_args |-> << Field("owner", "bytes") >>,
      balance_of_ret  |-> << Field("value", "uint64") >>,
      transfer_args   |-> << Field("to", "bytes"), Field("amount", "uint64") >>,
      note_args       |-> << Field("note", "string") >>,
      empty_msg       |-> << >>,
      odd_args        |-> << Field("m", "group") >> ]

OtherSchema == [ other_msg |-> << >> ]

Method(name, entry, arg, ret, ro) ==
    [ name |-> name, description |-> "", entry_point |-> entry,
      argument |-> arg, return |-> ret, read_only |-> ro ]

Ep0x10 == <<"0", "x", "1", "0">>

Ep0x20 == <<"0", "x", "2", "0">>

\* The "types" blob of an ABI document: whether proto.Unmarshal decodes it,
\* whether NewFiles accepts the decoded set, and the files of the set.
Types(decodes, accepted, files) ==
    [ decodes |-> decodes, accepted |-> accepted, files |-> files ]

OneFile == Types(TRUE, TRUE, << TokenSchema >>)

ABIDoc(methods, types) == [ methods |-> methods, types |-> types ]

\* What the file system answers for an ABI file name: whether os.Open and
\* ioutil.ReadAll succeed, whether the bytes are a JSON ABI document, and
\* the document.
File(opens, reads, json, abi) ==
    [ opens |-> opens, reads |-> reads, json |-> json, abi |-> abi ]

Valid(methods) == File(TRUE, TRUE, TRUE, ABIDoc(methods, OneFile))

ABIFiles ==
    [ missing  |-> File(FALSE, FALSE, FALSE, ABIDoc(<<>>, OneFile)),
      unread   |-> File(TRUE, FALSE, FALSE, ABIDoc(<<>>, OneFile)),
      garbage  |-> File(TRUE, TRUE, FALSE, ABIDoc(<<>>, OneFile)),
      badblob  |-> File(TRUE, TRUE, TRUE,
                        ABIDoc(<<>>, Types(FALSE, FALSE, << >>))),
      nofile   |-> File(TRUE, TRUE, TRUE,
                        ABIDoc(<<>>, Types(TRUE, TRUE, << >>))),
      twofiles |-> File(TRUE, TRUE, TRUE,
                        ABIDoc(<<>>, Types(TRUE, TRUE, << TokenSchema, OtherSchema >>))),
      samefile |-> File(TRUE, TRUE, TRUE,
                        ABIDoc(<<>>, Types(TRUE, FALSE, << TokenSchema, TokenSchema >>))),
      token    |-> Valid(<< Method(<<"balance_of">>, Ep0x10, "balance_of_args", "balance_of_ret", TRUE),
                            Method(<<"transfer">>, Ep0x20, "transfer_args", "empty_msg", FALSE) >>),
      empty    |-> Valid(<< >>),
      dup      |-> Valid(<< Method(<<"get">>, Ep0x10, "empty_msg", "balance_of_ret", TRUE),
                            Method(<<"get">>, Ep0x20, "empty_msg", "empty_msg", FALSE) >>),
      dotted   |-> Valid(<< Method(<<"b", Dot, "c">>, Ep0x10, "empty_msg", "balance_of_ret", TRUE),
                            Method(<<"c">>, Ep0x20, "empty_msg", "empty_msg", FALSE) >>),
      badarg   |-> Valid(<< Method(<<"c">>, Ep0x10, "empty_msg", "balance_of_ret", TRUE),
                            Method(<<"d">>, Ep0x20, "missing_args", "empty_msg", FALSE),
                            Method(<<"e">>, Ep0x20, "empty_msg", "empty_msg", FALSE) >>),
      badfield |-> Valid(<< Method(<<"m">>, Ep0x10, "odd_args", "empty_msg", TRUE),
                            Method(<<"c">>, Ep0x20, "empty_msg", "empty_msg", FALSE) >>),
      noret    |-> Valid(<< Method(<<"q">>, Ep0x10, "note_args", "missing_ret", TRUE) >>),
      entry    |-> Valid(<< Method(<<"dec">>, <<"1", "6">>, "empty_msg", "empty_msg", TRUE),
                            Method(<<"dec3">>, <<"1", "6", "0">>, "empty_msg", "empty_msg", FALSE),
                            Method(<<"big">>, <<"0", "x", "8", "0", "0", "0", "0", "0", "0", "0">>,
                                   "empty_msg", "empty_msg", TRUE),
                            Method(<<"word">>, <<"0", "x", "z", "z">>, "empty_msg", "empty_msg", FALSE),
                            Method(<<"none">>, << >>, "empty_msg", "empty_msg", TRUE) >>) ]

ABIFilenames == DOMAIN ABIFiles

\* ------------------------------------------------------------------------
\* Contract registry
\* ------------------------------------------------------------------------

\* Contracts.Contains
Contains(cs, name) == name \in DOMAIN cs

\* Contracts.Add: rejects a duplicate name, else stores the entry.  The
\* entry points at the parsed ABI and at its file descriptor, both immutable
\* once built: abi and fDesc are the name of the document they were built
\* from, and ABIOf and FDescOf follow the pointers.
Add(cs, name, address, abi, fDesc) ==
    IF Contains(cs, name)
    THEN [ err |-> "ContractExists", contracts |-> cs ]
    ELSE [ err |-> "none",
           contracts |-> [ n \in DOMAIN cs \cup {name} |->
                             IF n = name
                             THEN [ name |-> name, address |-> address,
                                    abi |-> abi, fDesc |-> fDesc ]
                             ELSE cs[n] ] ]

\* Index of the last "." of a qualified name, 0 when it has none.
LastDot(q) ==
    IF \E i \in 1..Len(q) : q[i] = Dot
    THEN CHOOSE i \in 1..Len(q) : q[i] = Dot /\ \A j \in (i + 1)..Len(q) : q[j] # Dot
    ELSE 0

ABIOf(c) == ABIFiles[c.abi].abi

FDescOf(c) == ABIFiles[c.fDesc].abi.types.files[1]

ContractPart(q) == SubSeq(q, 1, LastDot(q) - 1)

MethodPart(q) == SubSeq(q, LastDot(q) + 1, Len(q))

\* Contracts.GetFromMethodName: the contract of a qualified name, Nil when
\* the registry has none.
GetFromMethodName(cs, q) ==
    IF Contains(cs, ContractPart(q)) THEN Ptr(cs[ContractPart(q)]) ELSE Nil

\* Contracts.GetMethod: the first method of the contract's ABI that carries
\* the method part of the name, Nil when there is none.
GetMethod(cs, q) ==
    LET c == GetFromMethodName(cs, q)
    IN  IF c = Nil THEN Nil
        ELSE LET ms == ABIOf(c[1]).methods
                 hits == { i \in 1..Len(ms) : ms[i].name = MethodPart(q) }
             IN  IF hits = {} THEN Nil
                 ELSE Ptr(ms[CHOOSE i \in hits : \A j \in hits : i <= j])

\* Contracts.GetMethodReturn succeeds: the method's return type is a message
\* of the contract's schema file.
HasMethodReturn(cs, q) ==
    /\ GetMethod(cs, q) # Nil
    /\ GetMethod(cs, q)[1].return \in DOMAIN FDescOf(GetFromMethodName(cs, q)[1])

\* ------------------------------------------------------------------------
\* Command grammar
\* ------------------------------------------------------------------------

\* NewCommandDeclaration; kind names the Instantiation function.
NewCommandDeclaration(name, description, hidden, kind, args) ==
    [ name |-> name, description |-> description, hidden |-> hidden,
      kind |-> kind, args |-> args ]

BuildCommands ==
    << NewCommandDeclaration(<<"balance">>, "Check the balance at an address", FALSE, "balance", <<"address">>),
       NewCommandDeclaration(<<"create">>, "Create and open a new wallet file", FALSE, "create", <<"filename", "password">>),
       NewCommandDeclaration(<<"generate">>, "Generate and display a new private key", FALSE, "generate", << >>),
       NewCommandDeclaration(<<"info">>, "Show the currently opened wallet's address / key", FALSE, "info", << >>),
       NewCommandDeclaration(<<"open">>, "Open a wallet file", FALSE, "open", <<"filename", "password">>),
       NewCommandDeclaration(<<"exit">>, "Exit the wallet (quit also works)", FALSE, "exit", << >>),
       NewCommandDeclaration(<<"quit">>, "", TRUE, "exit", << >>) >>

CommandNames(cmds) == { cmds[i].name : i \in 1..Len(cmds) }

\* CommandSet.AddCommand: a declaration whose name collides is refused.
AddCommand(cmds, decl) ==
    IF decl.name \in CommandNames(cmds)
    THEN [ err |-> "DuplicateCommand", commands |-> cmds ]
    ELSE [ err |-> "none", commands |-> Append(cmds, decl) ]

\* ParseABIFields: one argument per schema field, in declaration order; a
\* field of an unsupported kind is an error.
ParseABIFields(fields) ==
    IF \E i \in 1..Len(fields) : fields[i].kind \notin SupportedKinds
    THEN [ err |-> "UnsupportedType", params |-> << >> ]
    ELSE [ err |-> "none", params |-> [ i \in 1..Len(fields) |-> fields[i].name ] ]

\* ------------------------------------------------------------------------
\* Message codec
\* ------------------------------------------------------------------------

\* The token v converts to a field of the given kind.
Coerces(kind, v) ==
    CASE kind = "uint64" -> DecimalParses(v)
      [] kind = "bytes"  -> HexDecodes(v)
      [] kind = "string" -> TRUE
      [] OTHER           -> FALSE

\* ParseResultToMessage succeeds: the method's argument type resolves and
\* every field of it has a value among args that converts to its kind.
ParseResultToMessageOk(cs, q, args) ==
    LET c == GetFromMethodName(cs, q)[1]
        m == GetMethod(cs, q)[1]
        fDesc == FDescOf(c)
    IN  /\ m.argument \in DOMAIN fDesc
        /\ \A i \in 1..Len(fDesc[m.argument]) :
              LET f == fDesc[m.argument][i]
              IN  f.name \in DOMAIN args /\ Coerces(f.kind, args[f.name])

\* utf8.ValidString
ValidUTF8(v) == \A i \in 1..Len(v) : v[i] # NotUTF8

\* proto.Marshal of the message ParseResultToMessage built succeeds: every
\* string field of it holds UTF-8 text.
MarshalOk(cs, q, args) ==
    LET c == GetFromMethodName(cs, q)[1]
        m == GetMethod(cs, q)[1]
        fDesc == FDescOf(c)
    IN  \A i \in 1..Len(fDesc[m.argument]) :
           LET f == fDesc[m.argument][i]
           IN  f.kind = "string" => ValidUTF8(args[f.name])

\* ------------------------------------------------------------------------
\* State
\* ------------------------------------------------------------------------

\* What the command executed last did: its kind, the name it was given (a
\* contract name for register, else the command name), the ABI file a
\* register went on to open, its result ("ok", an error class, or "panic"), the place that
\* decided the result, and the RPC calls it issued, in order.
Outcome(op, name, file, result, detail, calls) ==
    [ op |-> op, name |-> name, file |-> file, result |-> result,
      detail |-> detail, calls |-> calls ]

Init ==
    /\ key = NoKey
    /\ contracts = << >>
    /\ commands = BuildCommands
    /\ status = "running"
    /\ last = Outcome("none", << >>, "", "ok", "", << >>)

\* ------------------------------------------------------------------------
\* register
\* ------------------------------------------------------------------------

\* files.NumFiles(): NewFiles returns nil files with its error, and a nil
\* set counts 0 files.
NumFiles(types) == IF types.accepted THEN Len(types.files) ELSE 0

RECURSIVE CompileMethodsFirstOnly(_, _, _, _, _)
\* CompileMethods with the loop left after its first round.
CompileMethodsFirstOnly(cmds, cname, methods, fDesc, i) ==
    IF i > Len(methods) \/ i > 1 THEN [ err |-> "none", detail |-> "", commands |-> cmds ]
    ELSE LET method == methods[i]
         IN  IF method.argument \notin DOMAIN fDesc
             THEN [ err |-> "InvalidABI", detail |-> "could not find type", commands |-> cmds ]
             ELSE LET p == ParseABIFields(fDesc[method.argument])
                  IN  IF p.err # "none"
                      THEN [ err |-> "InvalidABI", detail |-> "ParseABIFields", commands |-> cmds ]
                      ELSE LET cmd == NewCommandDeclaration(
                                          QualifiedName(cname, method.name),
                                          method.description, FALSE,
                                          IF method.read_only THEN "read" ELSE "write",
                                          p.params)
                           IN  CompileMethodsFirstOnly(AddCommand(cmds, cmd).commands,
                                                       cname, methods, fDesc, i + 1)

RECURSIVE CompileMethods(_, _, _, _, _)
\* The loop over abi.Methods from method i on: the first method that does
\* not compile ends it with the commands added so far left in place.
CompileMethods(cmds, cname, methods, fDesc, i) ==
    IF i > Len(methods) THEN [ err |-> "none", detail |-> "", commands |-> cmds ]
    ELSE LET method == methods[i]
         IN  IF method.argument \notin DOMAIN fDesc
             THEN [ err |-> "InvalidABI", detail |-> "could not find type", commands |-> cmds ]
             ELSE LET p == ParseABIFields(fDesc[method.argument])
                  IN  IF p.err # "none"
                      THEN [ err |-> "InvalidABI", detail |-> "ParseABIFields", commands |-> cmds ]
                      ELSE LET cmd == NewCommandDeclaration(
                                          QualifiedName(cname, method.name),
                                          method.description, FALSE,
                                          IF method.read_only THEN "read" ELSE "write",
                                          p.params)
                           IN  CompileMethods(AddCommand(cmds, cmd).commands,
                                              cname, methods, fDesc, i + 1)

\* A register that ends with an error and leaves the name in the registry.
RegisterFailsPartial(name, filename, class, detail) ==
    /\ last' = Outcome("register", name, filename, class, detail, << >>)
    /\ contracts' = Add(contracts, name, GoodAddress, "empty", "empty").contracts
    /\ UNCHANGED <<key, commands, status>>

\* A register that ends with an error before it changed anything.
RegisterFails(name, filename, class, detail) ==
    /\ last' = Outcome("register", name, filename, class, detail, << >>)
    /\ UNCHANGED <<key, contracts, commands, status>>

\* RegisterCommand.Execute with the contract added after the loop over the
\* methods instead of before it.
RegisterLoadAddLast(name, address, filename) ==
    LET f    == ABIFiles[filename]
        abi  == f.abi
    IN  IF ~f.opens THEN RegisterFails(name, filename, "InvalidABI", "os.Open")
        ELSE IF ~f.reads THEN RegisterFails(name, filename, "InvalidABI", "ioutil.ReadAll")
        ELSE IF ~f.json THEN RegisterFails(name, filename, "InvalidABI", "json.Unmarshal")
        ELSE IF ~abi.types.decodes
             THEN RegisterFails(name, filename, "InvalidABI", "proto.Unmarshal")
        ELSE IF NumFiles(abi.types) # 1
             THEN RegisterFails(name, filename, "InvalidABI", "NumFiles")
        ELSE LET added == Add(contracts, name, address, filename, filename)
                 done  == CompileMethods(commands, name, abi.methods,
                                         abi.types.files[1], 1)
             IN  /\ Len(commands) + Len(abi.methods) <= MaxCommands
                 /\ contracts' = IF done.err = "none" THEN added.contracts ELSE contracts
                 /\ commands' = done.commands
                 /\ last' = Outcome("register", name, filename,
                                    IF done.err = "none" THEN "ok" ELSE done.err,
                                    done.detail, << >>)
                 /\ UNCHANGED <<key, status>>

\* RegisterCommand.Execute once the name is known to be new: load the
\* document, add the contract, compile the methods.
RegisterLoad(name, address, filename) ==
    LET f    == ABIFiles[filename]
        abi  == f.abi
    IN  IF ~f.opens THEN RegisterFails(name, filename, "InvalidABI", "os.Open")
        ELSE IF ~f.reads THEN RegisterFails(name, filename, "InvalidABI", "ioutil.ReadAll")
        ELSE IF ~f.json THEN RegisterFails(name, filename, "InvalidABI", "json.Unmarshal")
        ELSE IF ~abi.types.decodes
             THEN RegisterFails(name, filename, "InvalidABI", "proto.Unmarshal")
        ELSE IF NumFiles(abi.types) # 1
             THEN RegisterFails(name, filename, "InvalidABI", "NumFiles")
        ELSE LET added == Add(contracts, name, address, filename, filename)
                 done  == CompileMethods(commands, name, abi.methods,
                                         abi.types.files[1], 1)
             IN  /\ Len(commands) + Len(abi.methods) <= MaxCommands
                 /\ contracts' = added.contracts
                 /\ commands' = done.commands
                 /\ last' = Outcome("register", name, filename,
                                    IF done.err = "none" THEN "ok" ELSE done.err,
                                    done.detail, << >>)
                 /\ UNCHANGED <<key, status>>

\* RegisterCommand.Execute without its check of the name.
RegisterExecuteUnchecked(name, address, filename) ==
    /\ status = "running"
    /\ RegisterLoad(name, address, filename)

\* RegisterCommand.Execute
RegisterExecute(name, address, filename) ==
    /\ status = "running"
    /\ IF Contains(contracts, name)
       THEN RegisterFails(name, "", "ContractExists", "Contains")
       ELSE RegisterLoad(name, address, filename)

Register ==
    \E name \in ContractNames, address \in Addresses, filename \in ABIFilenames :
        RegisterExecute(name, address, filename)

\* ------------------------------------------------------------------------
\* Synthesized commands
\* ------------------------------------------------------------------------

\* The argument mappings the parser can hand to a declaration: one token
\* per declared argument.
ParsedArgs(decl) ==
    [ { decl.args[i] : i \in 1..Len(decl.args) } -> ArgValues ]

\* A command that closes the wallet when it ends with an error.
ReturnsClosing(op, name, result, detail, calls) ==
    /\ last' = Outcome(op, name, "", result, detail, calls)
    /\ status' = IF result = "panic" THEN "panicked" ELSE status
    /\ key' = IF result = "ok" THEN key ELSE NoKey
    /\ UNCHANGED <<contracts, commands>>

\* The command ends the process or returns, leaving the environment as it
\* was.
Returns(op, name, result, detail, calls) ==
    /\ last' = Outcome(op, name, "", result, detail, calls)
    /\ status' = IF result = "panic" THEN "panicked" ELSE status
    /\ UNCHANGED <<key, contracts, commands>>

\* What a synthesized command hands back: the result and the RPC calls it
\* issued.
Result(result, detail, calls) ==
    [ result |-> result, detail |-> detail, calls |-> calls ]

\* ReadContractCommand.Execute with a call that carries the key of the
\* environment, as the write call does.
ReadResultSigned(k, cs, q, args, rpc) ==
    LET contract == GetFromMethodName(cs, q)
        method   == GetMethod(cs, q)
    IN  IF method = Nil THEN Result("panic", "nil method", << >>)
        ELSE IF Len(method[1].entry_point) < 2 THEN Result("panic", "EntryPoint[2:]", << >>)
        ELSE LET ep == method[1].entry_point
                 entryPoint == ParseInt32(SubSeq(ep, 3, Len(ep)), 16)
                 call == [ kind |-> "read", entry |-> ToUint32(entryPoint),
                           signer |-> k ]
             IN  IF entryPoint.err # "none" THEN Result("NumError", entryPoint.err, << >>)
                 ELSE IF ~ParseResultToMessageOk(cs, q, args)
                      THEN Result("InvalidABI", "ParseResultToMessage", << >>)
                 ELSE IF ~MarshalOk(cs, q, args)
                      THEN Result("MarshalError", "proto.Marshal", << >>)
                 ELSE IF ~HexDecodes(contract[1].address)
                      THEN Result("panic", "Invalid contract ID", << >>)
                 ELSE IF rpc = "error" THEN Result("RPCError", "ReadContract", << call >>)
                 ELSE IF ~HasMethodReturn(cs, q)
                      THEN Result("TypeNotFound", "GetMethodReturn", << call >>)
                 ELSE IF rpc = "garbage"
                      THEN Result("DecodeError", "proto.Unmarshal", << call >>)
                 ELSE Result("ok", "", << call >>)

\* ReadContractCommand.Execute for the parsed invocation [q, args] in the
\* environment with key k and contracts cs; rpc is what the node answers
\* if it is asked.
ReadResult(k, cs, q, args, rpc) ==
    LET contract == GetFromMethodName(cs, q)
        method   == GetMethod(cs, q)
    IN  IF method = Nil THEN Result("panic", "nil method", << >>)
        ELSE IF Len(method[1].entry_point) < 2 THEN Result("panic", "EntryPoint[2:]", << >>)
        ELSE LET ep == method[1].entry_point
                 entryPoint == ParseInt32(SubSeq(ep, 3, Len(ep)), 16)
                 call == [ kind |-> "read", entry |-> ToUint32(entryPoint),
                           signer |-> NoKey ]
             IN  IF entryPoint.err # "none" THEN Result("NumError", entryPoint.err, << >>)
                 ELSE IF ~ParseResultToMessageOk(cs, q, args)
                      THEN Result("InvalidABI", "ParseResultToMessage", << >>)
                 ELSE IF ~MarshalOk(cs, q, args)
                      THEN Result("MarshalError", "proto.Marshal", << >>)
                 ELSE IF ~HexDecodes(contract[1].address)
                      THEN Result("panic", "Invalid contract ID", << >>)
                 ELSE IF rpc = "error" THEN Result("RPCError", "ReadContract", << call >>)
                 ELSE IF ~HasMethodReturn(cs, q)
                      THEN Result("TypeNotFound", "GetMethodReturn", << call >>)
                 ELSE IF rpc = "garbage"
                      THEN Result("DecodeError", "proto.Unmarshal", << call >>)
                 ELSE Result("ok", "", << call >>)

\* ReadContractCommand.Execute as a step of the session.
ReadExecute(q, args, rpc) ==
    /\ status = "running"
    /\ \E r \in { ReadResult(key, contracts, q, args, rpc) } :
          Returns("read", q, r.result, r.detail, r.calls)

\* WriteContractCommand.Execute for the parsed invocation [q, args] in the
\* environment with key k and contracts cs.
WriteResult(k, cs, q, args, rpc) ==
    LET contract == GetFromMethodName(cs, q)
        method   == GetMethod(cs, q)
    IN  IF method = Nil THEN Result("panic", "nil method", << >>)
        ELSE IF Len(method[1].entry_point) < 2 THEN Result("panic", "EntryPoint[2:]", << >>)
        ELSE LET ep == method[1].entry_point
                 entryPoint == ParseInt32(SubSeq(ep, 3, Len(ep)), 16)
                 call == [ kind |-> "write", entry |-> ToUint32(entryPoint),
                           signer |-> k ]
             IN  IF entryPoint.err # "none" THEN Result("NumError", entryPoint.err, << >>)
                 ELSE IF ~ParseResultToMessageOk(cs, q, args)
                      THEN Result("InvalidABI", "ParseResultToMessage", << >>)
                 ELSE IF ~HexDecodes(contract[1].address)
                      THEN Result("panic", "Invalid contract ID", << >>)
                 ELSE IF rpc = "error"
                      THEN Result("RPCError", "WriteMessageContract", << call >>)
                 ELSE Result("ok", "", << call >>)

\* WriteContractCommand.Execute as a step of the session.
WriteExecute(q, args, rpc) ==
    /\ status = "running"
    /\ \E r \in { WriteResult(key, contracts, q, args, rpc) } :
          Returns("write", q, r.result, r.detail, r.calls)

\* What the node can answer to a read and to a write.
ReadAnswers == {"error", "ok", "garbage"}

WriteAnswers == {"error", "ok"}

ReadContract ==
    \E i \in 1..Len(commands) :
        /\ commands[i].kind = "read"
        /\ \E args \in ParsedArgs(commands[i]), rpc \in ReadAnswers :
              ReadExecute(commands[i].name, args, rpc)

WriteContract ==
    \E i \in 1..Len(commands) :
        /\ commands[i].kind = "write"
        /\ \E args \in ParsedArgs(commands[i]), rpc \in WriteAnswers :
              WriteExecute(commands[i].name, args, rpc)

\* ------------------------------------------------------------------------
\* Static commands
\* ------------------------------------------------------------------------

\* BalanceCommand.Execute; rpc is the node's answer.
BalanceExecute(rpc) ==
    LET call == [ kind |-> "call", entry |-> Zero, signer |-> NoKey ]
        ret(result, detail) == Returns("balance", <<"balance">>, result, detail, << call >>)
    IN  /\ status = "running"
        /\ IF rpc = "error" THEN ret("RPCError", "Call")
           ELSE IF rpc = "garbage" THEN ret("DecodeError", "DeserializeUInt64")
           ELSE ret("ok", "")

Balance == \E rpc \in {"error", "ok", "garbage"} : BalanceExecute(rpc)

\* ExitCommand.Execute
Exit ==
    /\ status = "running"
    /\ status' = "exited"
    /\ last' = Outcome("exit", <<"exit">>, "", "ok", "os.Exit", << >>)
    /\ UNCHANGED <<key, contracts, commands>>

\* GenerateKeyCommand.Execute; generated tells whether GenerateKoinosKey
\* succeeds.
GenerateExecute(generated) ==
    /\ status = "running"
    /\ Returns("generate", <<"generate">>,
               IF generated THEN "ok" ELSE "KeyError", "GenerateKoinosKey", << >>)

Generate == \E generated \in BOOLEAN : GenerateExecute(generated)

\* CreateCommand.Execute; fs is the step of the file and key handling that
\* fails, if any, and k the key GenerateKoinosKey yields.
CreateExecute(fs, k) ==
    LET ret(result, detail) == Returns("create", <<"create">>, result, detail, << >>)
    IN  /\ status = "running"
        /\ IF fs = "exists" THEN ret("WalletExists", "os.Stat")
           ELSE IF fs = "create" THEN ret("FileError", "os.Create")
           ELSE IF fs = "generate" THEN ret("KeyError", "GenerateKoinosKey")
           ELSE IF fs = "write" THEN ret("FileError", "CreateWalletFile")
           ELSE /\ key' = k
                /\ last' = Outcome("create", <<"create">>, "", "ok", "", << >>)
                /\ UNCHANGED <<contracts, commands, status>>

Create ==
    \/ \E fs \in {"exists", "create", "generate", "write"} : CreateExecute(fs, NoKey)
    \/ \E k \in Keys : CreateExecute("ok", k)

\* InfoCommand.Execute
Info ==
    /\ status = "running"
    /\ Returns("info", <<"info">>,
               IF key = NoKey THEN "WalletClosed" ELSE "ok", "IsWalletOpen", << >>)

\* OpenCommand.Execute with the result of NewKoinosKeysFromBytes assigned
\* to the environment before its error is looked at.
OpenExecuteAssigning(fs, k) ==
    LET ret(result, detail) == Returns("open", <<"open">>, result, detail, << >>)
    IN  /\ status = "running"
        /\ IF fs = "open" THEN ret("FileError", "os.Open")
           ELSE IF fs = "decrypt" THEN ret("WalletDecrypt", "ReadWalletFile")
           ELSE /\ key' = IF fs = "key" THEN NoKey ELSE k
                /\ last' = IF fs = "key"
                           THEN Outcome("open", <<"open">>, "", "KeyError",
                                        "NewKoinosKeysFromBytes", << >>)
                           ELSE Outcome("open", <<"open">>, "", "ok", "", << >>)
                /\ UNCHANGED <<contracts, commands, status>>

\* OpenCommand.Execute; fs is the step that fails, if any, and k the key
\* the wallet file holds.
OpenExecute(fs, k) ==
    LET ret(result, detail) == Returns("open", <<"open">>, result, detail, << >>)
    IN  /\ status = "running"
        /\ IF fs = "open" THEN ret("FileError", "os.Open")
           ELSE IF fs = "decrypt" THEN ret("WalletDecrypt", "ReadWalletFile")
           ELSE IF fs = "key" THEN ret("KeyError", "NewKoinosKeysFromBytes")
           ELSE /\ key' = k
                /\ last' = Outcome("open", <<"open">>, "", "ok", "", << >>)
                /\ UNCHANGED <<contracts, commands, status>>

Open ==
    \/ \E fs \in {"open", "decrypt", "key"} : OpenExecute(fs, NoKey)
    \/ \E k \in Keys : OpenExecute("ok", k)

\* ------------------------------------------------------------------------
\* Specification
\* ------------------------------------------------------------------------

Next ==
    \/ Register
    \/ ReadContract
    \/ WriteContract
    \/ Balance
    \/ Exit
    \/ Generate
    \/ Create
    \/ Info
    \/ Open

Spec == Init /\ [][Next]_vars

\* ------------------------------------------------------------------------
\* Vocabulary of the properties
\* ------------------------------------------------------------------------

\* The document of an ABI file loads: it is read, parsed, and its schema set
\* holds exactly one file.
Loads(f) ==
    /\ f.opens /\ f.reads /\ f.json
    /\ f.abi.types.decodes /\ f.abi.types.accepted
    /\ Len(f.abi.types.files) = 1

MethodsOf(filename) == ABIFiles[filename].abi.methods

SchemaOf(filename) == ABIFiles[filename].abi.types.files[1]

\* The last command was a register that got as far as compiling the
\* methods of its document.
RegisterCompiled ==
    /\ last.op = "register"
    /\ last.file # ""
    /\ Loads(ABIFiles[last.file])

\* The register of this step is given a name the registry does not hold
\* and a document that loads.
RegisterStep ==
    /\ last'.op = "register"
    /\ last'.file # ""
    /\ Loads(ABIFiles[last'.file])
    /\ vars' # vars

\* A method compiles against a schema: its argument type is a message of
\* it and every field of that message becomes an argument.
Compiles(m, schema) ==
    /\ m.argument \in DOMAIN schema
    /\ \A i \in 1..Len(schema[m.argument]) : schema[m.argument][i].kind \in SupportedKinds

\* The names register gives the commands of a document under a contract.
QualifiedNames(cname, methods) ==
    [ i \in 1..Len(methods) |-> QualifiedName(cname, methods[i].name) ]

Distinct(seq) == \A i, j \in 1..Len(seq) : seq[i] = seq[j] => i = j

Synthesized(cmds) == { i \in 1..Len(cmds) : cmds[i].kind \in {"read", "write"} }

\* An entry point as the ABI document format has it: a hex numeral after
\* 0x, or a decimal numeral.
IsHexNumeral(ep) ==
    /\ HasPrefix0x(ep) /\ Len(ep) > 2
    /\ \A i \in 3..Len(ep) : DigitVal(ep[i]) < 16

IsDecimalNumeral(ep) ==
    /\ ep # << >>
    /\ \A i \in 1..Len(ep) : DigitVal(ep[i]) < 10

IsNumeral(ep) == IsHexNumeral(ep) \/ IsDecimalNumeral(ep)

RECURSIVE ValueFrom(_, _, _, _)
\* The number the digits s[i..] denote in the base, after n; numerals of
\* the model have at most 8 hex or 9 decimal digits.
ValueFrom(s, i, base, n) ==
    IF i > Len(s) THEN n
    ELSE ValueFrom(s, i + 1, base, MulAdd(n, base, DigitVal(s[i])))

\* The number a numeral denotes.
Denotes(ep) ==
    IF IsHexNumeral(ep) THEN ValueFrom(ep, 3, 16, Zero) ELSE ValueFrom(ep, 1, 10, Zero)

\* The ABI document is valid: it loads, every method has a name, a numeral
\* as entry point, and argument and return types that are messages of the
\* schema, with fields the compiler supports.
ValidABI(filename) ==
    /\ Loads(ABIFiles[filename])
    /\ \A i \in 1..Len(MethodsOf(filename)) :
          LET m == MethodsOf(filename)[i]
          IN  /\ m.name # << >>
              /\ IsNumeral(m.entry_point)
              /\ Compiles(m, SchemaOf(filename))
              /\ m.return \in DOMAIN SchemaOf(filename)

\* ------------------------------------------------------------------------
\* C1
\* ------------------------------------------------------------------------

\* C1 (as claimed): after a register that failed because a method of the
\* ABI did not compile, the registry does not hold the contract and the
\* grammar holds none of the ABI's <contract>.<method> commands.
C1_AtomicRegistration ==
    ( /\ RegisterCompiled
      /\ last.result = "InvalidABI"
      /\ last.detail \in {"could not find type", "ParseABIFields"} )
    => /\ ~Contains(contracts, last.name)
       /\ \A i \in 1..Len(MethodsOf(last.file)) :
             QualifiedName(last.name, MethodsOf(last.file)[i].name) \notin CommandNames(commands)

\* ------------------------------------------------------------------------
\* C2
\* ------------------------------------------------------------------------

\* C2 (as claimed): a synthesized write command executed with no wallet
\* open fails with WalletClosed and issues no RPC call.
C2_WriteNeedsOpenWallet ==
    (last.op = "write" /\ key = NoKey)
    => (last.result = "WalletClosed" /\ last.calls = << >>)

\* ------------------------------------------------------------------------
\* C3
\* ------------------------------------------------------------------------

\* C3: a register under a name the registry already holds fails with
\* ContractExists and changes neither the registry nor the grammar.
C3_DuplicateNameRejected ==
    [][ (last'.op = "register" /\ vars' # vars /\ Contains(contracts, last'.name))
        => /\ last'.result = "ContractExists"
           /\ contracts' = contracts
           /\ commands' = commands ]_vars

\* C3 witness: a register was refused with ContractExists while the
\* contract of that name has commands in the grammar.
C3_Witness ==
    /\ last.op = "register"
    /\ last.result = "ContractExists"
    /\ \E i \in Synthesized(commands) : ContractPart(commands[i].name) = last.name

\* ------------------------------------------------------------------------
\* C4
\* ------------------------------------------------------------------------

\* C4 (as claimed): registering a valid ABI document under a name the
\* registry does not hold succeeds and leaves the grammar with exactly
\* len(methods) more commands, one named <contract>.<method> per method.
C4_InstallsEveryMethod ==
    [][ (RegisterStep /\ ~Contains(contracts, last'.name) /\ ValidABI(last'.file))
        => /\ last'.result = "ok"
           /\ Len(commands') = Len(commands) + Len(MethodsOf(last'.file))
           /\ \A i \in 1..Len(MethodsOf(last'.file)) :
                 QualifiedNames(last'.name, MethodsOf(last'.file))[i] \in CommandNames(commands') ]_vars

\* C4 (amended): registering a valid ABI document under a name the
\* registry does not hold, when the qualified names of its methods are
\* pairwise distinct and none is in the grammar yet, succeeds and appends
\* to the grammar exactly len(methods) commands, the i-th named
\* <contract>.<method> after the i-th method and reading or writing as the
\* method's read-only flag says.
C4_InstallsEveryNewMethod ==
    [][ ( /\ RegisterStep /\ ~Contains(contracts, last'.name) /\ ValidABI(last'.file)
          /\ Distinct(QualifiedNames(last'.name, MethodsOf(last'.file)))
          /\ \A i \in 1..Len(MethodsOf(last'.file)) :
                QualifiedNames(last'.name, MethodsOf(last'.file))[i] \notin CommandNames(commands) )
        => /\ last'.result = "ok"
           /\ Len(commands') = Len(commands) + Len(MethodsOf(last'.file))
           /\ SubSeq(commands', 1, Len(commands)) = commands
           /\ \A i \in 1..Len(MethodsOf(last'.file)) :
                 LET decl == commands'[Len(commands) + i]
                     m    == MethodsOf(last'.file)[i]
                 IN  /\ decl.name = QualifiedName(last'.name, m.name)
                     /\ decl.kind = IF m.read_only THEN "read" ELSE "write" ]_vars

\* C4 witness: a valid document of two methods with distinct names was
\* registered and both commands are in the grammar.
C4_Witness ==
    /\ last.op = "register"
    /\ last.result = "ok"
    /\ last.file = "token"
    /\ QualifiedName(last.name, <<"balance_of">>) \in CommandNames(commands)
    /\ QualifiedName(last.name, <<"transfer">>) \in CommandNames(commands)

\* ------------------------------------------------------------------------
\* C5
\* ------------------------------------------------------------------------

\* C5 (as claimed): no two declarations of the grammar have the same name,
\* and a register that would install a name already present (in the
\* grammar, or earlier in its own method list) is rejected.
C5_UniqueNamesOrRejected ==
    [][ /\ Distinct([ i \in 1..Len(commands') |-> commands'[i].name ])
        /\ ( /\ RegisterStep /\ ~Contains(contracts, last'.name)
             /\ \A i \in 1..Len(MethodsOf(last'.file)) :
                   Compiles(MethodsOf(last'.file)[i], SchemaOf(last'.file))
             /\ \/ ~Distinct(QualifiedNames(last'.name, MethodsOf(last'.file)))
                \/ \E i \in 1..Len(MethodsOf(last'.file)) :
                      QualifiedNames(last'.name, MethodsOf(last'.file))[i] \in CommandNames(commands) )
           => last'.result # "ok" ]_vars

\* ------------------------------------------------------------------------
\* C6
\* ------------------------------------------------------------------------

\* C6 (as claimed): every contract of the registry has an address that
\* decodes, so no invocation meets an undecodable address.
C6_AddressValidated ==
    /\ \A n \in DOMAIN contracts : HexDecodes(contracts[n].address)
    /\ last.detail # "Invalid contract ID"

\* ------------------------------------------------------------------------
\* C7
\* ------------------------------------------------------------------------

\* C7 (as claimed): no command puts the process in a fatal state; only
\* exit and quit end it.
C7_NoFatalState ==
    /\ status # "panicked"
    /\ last.result # "panic"
    /\ status = "exited" => last.op = "exit"

\* ------------------------------------------------------------------------
\* C8
\* ------------------------------------------------------------------------

\* C8 (as claimed): a register whose ABI has a method with an argument or
\* return type name absent from the schema fails with InvalidABI, so the
\* return schema lookup of an invocation never fails.
C8_BothTypesValidated ==
    /\ ( /\ RegisterCompiled
         /\ \E i \in 1..Len(MethodsOf(last.file)) :
               \/ MethodsOf(last.file)[i].argument \notin DOMAIN SchemaOf(last.file)
               \/ MethodsOf(last.file)[i].return \notin DOMAIN SchemaOf(last.file) )
       => last.result = "InvalidABI"
    /\ last.detail # "GetMethodReturn"

\* ------------------------------------------------------------------------
\* C9
\* ------------------------------------------------------------------------

\* C9 (as claimed): a register whose ABI has a method with a non-numeric
\* or missing entry point fails with InvalidABI, and no invocation reports
\* an entry-point conversion failure otherwise than as InvalidABI.
C9_EntryPointValidated ==
    /\ ( /\ RegisterCompiled
         /\ \E i \in 1..Len(MethodsOf(last.file)) :
               ~IsNumeral(MethodsOf(last.file)[i].entry_point) )
       => last.result = "InvalidABI"
    /\ last.result # "NumError"
    /\ last.detail # "EntryPoint[2:]"

\* ------------------------------------------------------------------------
\* C10
\* ------------------------------------------------------------------------

\* C10 (as claimed): when the method of a synthesized command has a hex
\* (0x...) or decimal numeral below 2^32 as entry point, the conversion
\* does not fail and every RPC call of the command carries the number the
\* numeral denotes.
C10_EntryPointValue ==
    ( /\ last.op \in {"read", "write"}
      /\ GetMethod(contracts, last.name) # Nil
      /\ IsNumeral(GetMethod(contracts, last.name)[1].entry_point)
      /\ ~Above32(Denotes(GetMethod(contracts, last.name)[1].entry_point)) )
    => /\ last.result # "NumError"
       /\ \A i \in 1..Len(last.calls) :
             last.calls[i].entry = Denotes(GetMethod(contracts, last.name)[1].entry_point)

\* ------------------------------------------------------------------------
\* C11
\* ------------------------------------------------------------------------

\* The declarations of the grammar that a command line naming q reaches.
Declared(q, kind) ==
    { i \in 1..Len(commands) : commands[i].name = q /\ commands[i].kind = kind }

\* The environment's key: none, or the key of an open wallet.
Wallets == Keys \cup {NoKey}

\* C11: a synthesized read command never needs an open wallet: its step
\* leaves the key alone, never fails with WalletClosed, issues no call
\* other than a read that carries no key, and ends as it would with the
\* same arguments, registry and RPC answer under every other wallet, open
\* or closed.
C11_ReadIgnoresWallet ==
    [][ (last'.op = "read" /\ vars' # vars)
        => /\ key' = key
           /\ last'.result # "WalletClosed"
           /\ \A j \in 1..Len(last'.calls) :
                 last'.calls[j].kind = "read" /\ last'.calls[j].signer = NoKey
           /\ \E i \in Declared(last'.name, "read") :
                 \E args \in ParsedArgs(commands[i]), rpc \in ReadAnswers :
                    \A k \in Wallets :
                       ReadResult(k, contracts, last'.name, args, rpc)
                          = Result(last'.result, last'.detail, last'.calls) ]_vars

\* C11 witness: a read command succeeded, its call issued, with no wallet
\* open.
C11_Witness ==
    /\ last.op = "read"
    /\ last.result = "ok"
    /\ Len(last.calls) = 1
    /\ key = NoKey

\* ------------------------------------------------------------------------
\* C12
\* ------------------------------------------------------------------------

\* What a synthesized command of the kind does with [q, args] when the
\* node answers rpc.
Invoke(kind, q, args, rpc) ==
    IF kind = "read" THEN ReadResult(key, contracts, q, args, rpc)
    ELSE WriteResult(key, contracts, q, args, rpc)

Answers(kind) == IF kind = "read" THEN ReadAnswers ELSE WriteAnswers

\* The request of [q, args] is built: the message is formed from the
\* arguments and serialized.
Encodes(q, args) ==
    ParseResultToMessageOk(contracts, q, args) /\ MarshalOk(contracts, q, args)

\* C12 (as claimed): a synthesized invocation issues at most one RPC call,
\* of its own kind, and only once the request is encoded; a failure to
\* encode is an InvalidABI error with no call; a read decodes and renders,
\* and a write acknowledges, only when the call was issued and succeeded.
C12_InvocationOrder ==
    [][ (last'.op \in {"read", "write"} /\ vars' # vars)
        => /\ Len(last'.calls) <= 1
           /\ \A j \in 1..Len(last'.calls) : last'.calls[j].kind = last'.op
           /\ last'.detail \in {"ParseResultToMessage", "proto.Marshal"}
                 => (last'.result = "InvalidABI" /\ last'.calls = << >>)
           /\ \A i \in Declared(last'.name, last'.op) :
                 \A args \in ParsedArgs(commands[i]), rpc \in Answers(last'.op) :
                    Invoke(last'.op, last'.name, args, rpc)
                          = Result(last'.result, last'.detail, last'.calls)
                    => /\ last'.calls # << >> => Encodes(last'.name, args)
                       /\ last'.detail \in {"GetMethodReturn", "proto.Unmarshal"}
                             => (rpc # "error" /\ Len(last'.calls) = 1)
                       /\ last'.result = "ok"
                             => (rpc = "ok" /\ Len(last'.calls) = 1) ]_vars

\* ------------------------------------------------------------------------
\* C13
\* ------------------------------------------------------------------------

\* The command of the step returned from the error branch of its RPC call.
RPCFailed ==
    /\ last'.op \in {"read", "write", "balance"}
    /\ last'.detail \in {"ReadContract", "WriteMessageContract", "Call"}
    /\ vars' # vars

\* C13: when the RPC call of a synthesized read or write command or of
\* balance fails, the command returns an error, key, registry and grammar
\* are as before the command, and the session goes on with the command
\* still in the grammar, so the same line can be typed again.
C13_RPCFailureKeepsEnvironment ==
    [][ RPCFailed
        => /\ last'.result = "RPCError"
           /\ Len(last'.calls) = 1
           /\ key' = key
           /\ contracts' = contracts
           /\ commands' = commands
           /\ status' = "running"
           /\ last'.name \in CommandNames(commands') ]_vars

\* C13 witness: the RPC call of a write command failed while a wallet is
\* open and contracts are registered.
C13_Witness ==
    /\ last.op = "write"
    /\ last.detail = "WriteMessageContract"
    /\ last.result = "RPCError"
    /\ key # NoKey
    /\ contracts # << >>
    /\ status = "running"

\* ------------------------------------------------------------------------
\* C14
\* ------------------------------------------------------------------------

\* NewFiles reports an error for the decoded descriptor set of the file.
NewFilesFails(f) ==
    /\ f.opens /\ f.reads /\ f.json
    /\ f.abi.types.decodes
    /\ ~f.abi.types.accepted

\* An AddCommand of the loop over the methods reports an error: the loop
\* gets as far as a method whose qualified name is in the grammar or is the
\* name of an earlier method.
AddCommandFails(cmds, cname, methods, schema) ==
    \E i \in 1..Len(methods) :
        /\ \A j \in 1..i : Compiles(methods[j], schema)
        /\ \/ QualifiedNames(cname, methods)[i] \in CommandNames(cmds)
           \/ \E j \in 1..(i - 1) :
                 QualifiedNames(cname, methods)[j] = QualifiedNames(cname, methods)[i]

\* C14 (as claimed): a register in which NewFiles, Contracts.Add or an
\* AddCommand reports an error does not end with the success message.
C14_NoSwallowedError ==
    [][ ( /\ last'.op = "register" /\ last'.file # "" /\ vars' # vars
          /\ \/ NewFilesFails(ABIFiles[last'.file])
             \/ /\ Loads(ABIFiles[last'.file])
                /\ \/ Add(contracts, last'.name, GoodAddress, last'.file, last'.file).err # "none"
                   \/ AddCommandFails(commands, last'.name, MethodsOf(last'.file),
                                      SchemaOf(last'.file)) )
        => last'.result # "ok" ]_vars

\* ------------------------------------------------------------------------
\* C15
\* ------------------------------------------------------------------------

\* The register of this step was given the ABI file: the step names it,
\* or it returned at the check of the contract name, whatever the file.
RegisterGiven(filename) ==
    /\ last'.op = "register"
    /\ vars' # vars
    /\ \/ last'.file = filename
       \/ last'.file = "" /\ Contains(contracts, last'.name)

\* The ABI files that cannot be read, do not parse, whose schema blob does
\* not decode or whose schema set is not of exactly one file.
Unloadable == { f \in ABIFilenames : ~Loads(ABIFiles[f]) }

\* C15 (as claimed): a register given an ABI file that does not load ends
\* with an InvalidABI error and leaves registry and grammar as they were.
C15_UnloadableRejected ==
    [][ (\E f \in Unloadable : RegisterGiven(f))
        => /\ last'.result = "InvalidABI"
           /\ contracts' = contracts
           /\ commands' = commands ]_vars

\* C15 (amended): a register under a name the registry does not hold,
\* given an ABI file that does not load, ends with an InvalidABI error and
\* leaves registry and grammar as they were.
C15_NewNameUnloadableRejected ==
    [][ ( /\ ~Contains(contracts, last'.name)
          /\ \E f \in Unloadable : RegisterGiven(f) )
        => /\ last'.result = "InvalidABI"
           /\ contracts' = contracts
           /\ commands' = commands ]_vars

\* C15 witness: a register of a file that does not load was rejected with
\* InvalidABI while the registry holds another contract.
C15_Witness ==
    /\ last.op = "register"
    /\ last.file \in Unloadable
    /\ last.result = "InvalidABI"
    /\ ~Contains(contracts, last.name)
    /\ contracts # << >>

\* ------------------------------------------------------------------------
\* C16
\* ------------------------------------------------------------------------

\* C16: a register changes the grammar only when it has added its
\* contract, under a name the registry did not hold, and when it reports
\* success the contract is in the registry and every <contract>.<method>
\* of the ABI is the name of a command of the grammar.
C16_InstalledAfterAdded ==
    [][ (last'.op = "register" /\ vars' # vars)
        => /\ commands' # commands
                 => /\ Add(contracts, last'.name, GoodAddress, last'.file, last'.file).err = "none"
                    /\ Contains(contracts', last'.name)
                    /\ contracts'[last'.name].abi = last'.file
           /\ last'.result = "ok"
                 => /\ Contains(contracts', last'.name)
                    /\ contracts'[last'.name].abi = last'.file
                    /\ \A i \in 1..Len(MethodsOf(last'.file)) :
                          QualifiedNames(last'.name, MethodsOf(last'.file))[i]
                             \in CommandNames(commands') ]_vars

\* C16 witness: a register of a document of several methods reported
\* success, with its contract in the registry and a command in the grammar
\* for each method.
C16_Witness ==
    /\ last.op = "register"
    /\ last.result = "ok"
    /\ Len(MethodsOf(last.file)) > 1
    /\ Contains(contracts, last.name)
    /\ \A i \in 1..Len(MethodsOf(last.file)) :
          QualifiedName(last.name, MethodsOf(last.file)[i].name) \in CommandNames(commands)

\* ------------------------------------------------------------------------
\* C17
\* ------------------------------------------------------------------------

\* The step registers again the name whose register has just failed, for
\* another reason than the name being held.
RegisterRetried ==
    /\ last.op = "register"
    /\ last.result \notin {"ok", "ContractExists"}
    /\ last'.op = "register"
    /\ last'.name = last.name
    /\ vars' # vars

\* C17 (as claimed): a register of the name of a register that has just
\* failed is not rejected as already existing, and succeeds when it is
\* given a valid ABI whose commands are new to the grammar.
C17_FailedRegisterRetryable ==
    [][ RegisterRetried
        => /\ last'.result # "ContractExists"
           /\ ( /\ last'.file # ""
                /\ ValidABI(last'.file)
                /\ Distinct(QualifiedNames(last'.name, MethodsOf(last'.file)))
                /\ \A i \in 1..Len(MethodsOf(last'.file)) :
                      QualifiedNames(last'.name, MethodsOf(last'.file))[i]
                         \notin CommandNames(commands) )
              => last'.result = "ok" ]_vars

\* ------------------------------------------------------------------------
\* C18
\* ------------------------------------------------------------------------

\* C18 (as claimed): every synthesized command of the grammar resolves in
\* the registry, to a contract and to a method of its ABI, and no read or
\* write command has dereferenced a missing contract or method.
C18_CommandsResolve ==
    /\ \A i \in Synthesized(commands) :
          /\ GetFromMethodName(contracts, commands[i].name) # Nil
          /\ GetMethod(contracts, commands[i].name) # Nil
    /\ last.detail # "nil method"

\* ------------------------------------------------------------------------
\* C19
\* ------------------------------------------------------------------------

====
